---- MODULE Spec2Model ----
(***************************************************************************)
(* A model of the sysexits crate: the ExitCode enumeration and its         *)
(* conversions (enum -> integer, integer -> enum, io::ErrorKind and        *)
(* io::Error -> enum, process::ExitStatus -> enum, Result -> enum), its    *)
(* predicates and the two ways it ends the process (exit, and report on    *)
(* return from main).                                                      *)
(* The library itself is stateless; the state is that of a caller that     *)
(* invokes one conversion per step and holds on to the call's argument and *)
(* result, then either feeds the result to another conversion or lets go   *)
(* of it.                                                                  *)
(***************************************************************************)
EXTENDS Integers, Sequences, FiniteSets, TLC

VARIABLES ext,   \* build configuration: cargo feature "extended_io_error"
          op,    \* the conversion the caller invoked last
          arg,   \* its argument
          res,   \* its result
          prev,  \* the call whose result was fed into this one (or NoCall)
          proc   \* the process: running, or exited with a status

vars == <<ext, op, arg, res, prev, proc>>

(***************************************************************************)
(* Bounds of the model.                                                    *)
(***************************************************************************)
\* Integers offered to try_from lie within -Window..Window (clipped to the
\* integer type), plus the extremes of each type that TLC can represent.
Window == 340

(***************************************************************************)
(* enum ExitCode: the variants in declaration order.  explicit = -1 stands *)
(* for a variant declared without "= value".                               *)
(***************************************************************************)
ExitCodeDecl ==
  << [name |-> "Ok",          explicit |-> -1],
     [name |-> "Usage",       explicit |-> 64],
     [name |-> "DataErr",     explicit |-> -1],
     [name |-> "NoInput",     explicit |-> -1],
     [name |-> "NoUser",      explicit |-> -1],
     [name |-> "NoHost",      explicit |-> -1],
     [name |-> "Unavailable", explicit |-> -1],
     [name |-> "Software",    explicit |-> -1],
     [name |-> "OsErr",       explicit |-> -1],
     [name |-> "OsFile",      explicit |-> -1],
     [name |-> "CantCreat",   explicit |-> -1],
     [name |-> "IoErr",       explicit |-> -1],
     [name |-> "TempFail",    explicit |-> -1],
     [name |-> "Protocol",    explicit |-> -1],
     [name |-> "NoPerm",      explicit |-> -1],
     [name |-> "Config",      explicit |-> -1] >>

\* The variants of ExitCode.
ExitCode == { ExitCodeDecl[i].name : i \in 1..Len(ExitCodeDecl) }

\* Rust's rule for the discriminant of the i-th declared variant: the
\* explicit value if there is one, else 0 for the first variant, else one
\* more than the preceding variant's.
RECURSIVE DeclDiscriminant(_, _)
DeclDiscriminant(decl, i) ==
  IF decl[i].explicit # -1 THEN decl[i].explicit
  ELSE IF i = 1 THEN 0
  ELSE DeclDiscriminant(decl, i - 1) + 1

DeclIndex(decl, v) == CHOOSE i \in 1..Len(decl) : decl[i].name = v

\* A declaration that forgets "= 64" on Usage.
DiscriminantNoBase(v) ==
  DeclDiscriminant([ExitCodeDecl EXCEPT ![2].explicit = -1],
                   DeclIndex(ExitCodeDecl, v))

\* The discriminant of a variant.
Discriminant(v) == DeclDiscriminant(ExitCodeDecl, DeclIndex(ExitCodeDecl, v))

\* #[derive(PartialEq)] on a field-less enum compares discriminants.
PartialEq(a, b) == Discriminant(a) = Discriminant(b)

(***************************************************************************)
(* The integer types the conversions are implemented for.                  *)
(***************************************************************************)
IntTypes == {"i8", "i16", "i32", "i64", "i128", "isize",
             "u8", "u16", "u32", "u64", "u128", "usize"}

Signed(T) == T \in {"i8", "i16", "i32", "i64", "i128", "isize"}

\* isize and usize are taken at 64 bits.
Bits(T) == CASE T \in {"i8", "u8"}       -> 8
             [] T \in {"i16", "u16"}     -> 16
             [] T \in {"i32", "u32"}     -> 32
             [] T \in {"i64", "u64"}     -> 64
             [] T \in {"isize", "usize"} -> 64
             [] T \in {"i128", "u128"}   -> 128

\* TLC's integers are 32 bits wide: the modulus, minimum and maximum of a
\* type are computed for the 8 and 16 bit types only.
Narrow(T) == Bits(T) <= 16
Modulus(T) == 2 ^ Bits(T)
MinOf(T) == IF Signed(T) THEN -(2 ^ (Bits(T) - 1)) ELSE 0
MaxOf(T) == IF Signed(T) THEN 2 ^ (Bits(T) - 1) - 1 ELSE 2 ^ Bits(T) - 1

\* Magnitudes beyond the window, offered to the types of 32 bits and more:
\* values that alias a legal code when cut to 16 or 24 bits, and the largest
\* integer TLC represents.
WideSamples == {65536, 65536 + 64, 65536 + 78, 16777216 + 70, 2147483647}

\* Is n a value of type T?  (n is a TLC integer, so |n| < 2^31.)
InType(n, T) ==
  IF Narrow(T) THEN MinOf(T) <= n /\ n <= MaxOf(T)
  ELSE Signed(T) \/ n >= 0

\* "d as T": a numeric cast wraps modulo 2^Bits(T).  For the wide types
\* every d that is a value of T is left alone; a d outside them has no
\* representable image and is not evaluated.
AsCast(d, T) ==
  IF InType(d, T) THEN d
  ELSE ((d - MinOf(T)) % Modulus(T)) + MinOf(T)

\* The integers of type T the caller offers.
Inputs(T) ==
  { n \in (-Window)..Window : InType(n, T) }
    \cup (IF Narrow(T) THEN {MinOf(T), MaxOf(T)}
          ELSE IF Signed(T) THEN WideSamples \cup { -n : n \in WideSamples }
          ELSE WideSamples)

(***************************************************************************)
(* Values held by the caller.                                              *)
(***************************************************************************)
NoCall == [op |-> "none"]
NoArg  == [tag |-> "none"]

CodeVal(v)   == [tag |-> "code", v |-> v]
IntVal(T, n) == [tag |-> "int", T |-> T, n |-> n]
BoolVal(b)   == [tag |-> "bool", b |-> b]
StrVal(s)    == [tag |-> "str", s |-> s]
\* core::result::Result
OkVal(v)     == [tag |-> "Ok", v |-> v]
ErrVal(e)    == [tag |-> "Err", e |-> e]

ExitCodeRangeError == "ExitCodeRangeError"

\* core::option::Option
Some(x) == [tag |-> "Some", x |-> x]
None    == [tag |-> "None"]

\* The process while it runs, and after it has exited with a status.
Alive          == [running |-> TRUE]
Exited(status) == [running |-> FALSE, status |-> status]


(***************************************************************************)
(* impl From<ExitCode> for $T: "code as Self".                             *)
(***************************************************************************)
\* The base value 64 added on top of the discriminant before the cast.
from_exit_code_to_integer_rebased(code, T) ==
  AsCast(64 + Discriminant(code), T)

from_exit_code_to_integer(code, T) == AsCast(Discriminant(code), T)

(***************************************************************************)
(* impl TryFrom<$T> for ExitCode: a match on the value, first arm first,   *)
(* ending in "_ => Err(ExitCodeRangeError)".                               *)
(***************************************************************************)
TryFromArms ==
  << [pat |-> 0,  out |-> "Ok"],
     [pat |-> 64, out |-> "Usage"],
     [pat |-> 65, out |-> "DataErr"],
     [pat |-> 66, out |-> "NoInput"],
     [pat |-> 67, out |-> "NoUser"],
     [pat |-> 68, out |-> "NoHost"],
     [pat |-> 69, out |-> "Unavailable"],
     [pat |-> 70, out |-> "Software"],
     [pat |-> 71, out |-> "OsErr"],
     [pat |-> 72, out |-> "OsFile"],
     [pat |-> 73, out |-> "CantCreat"],
     [pat |-> 74, out |-> "IoErr"],
     [pat |-> 75, out |-> "TempFail"],
     [pat |-> 76, out |-> "Protocol"],
     [pat |-> 77, out |-> "NoPerm"],
     [pat |-> 78, out |-> "Config"] >>

RECURSIVE MatchInteger(_, _, _)
MatchInteger(arms, i, value) ==
  IF i > Len(arms) THEN ErrVal(ExitCodeRangeError)
  ELSE IF arms[i].pat = value THEN OkVal(arms[i].out)
  ELSE MatchInteger(arms, i + 1, value)

\* The match with two arms' results exchanged (OsErr and OsFile).
try_from_integer_to_exit_code_swapped(T, value) ==
  MatchInteger([TryFromArms EXCEPT ![9].out = "OsFile", ![10].out = "OsErr"],
               1, value)

\* The value cut to a byte before the match.
try_from_integer_to_exit_code_truncating(T, value) ==
  MatchInteger(TryFromArms, 1, AsCast(value, "u8"))

try_from_integer_to_exit_code(T, value) == MatchInteger(TryFromArms, 1, value)

(***************************************************************************)
(* std::io::ErrorKind: the kinds the crate's tests name, and Uncategorized *)
(* for the kinds of the non-exhaustive enum that cannot be named.          *)
(***************************************************************************)
ErrorKind ==
  {"NotFound", "PermissionDenied", "ConnectionRefused", "ConnectionReset",
   "HostUnreachable", "NetworkUnreachable", "ConnectionAborted",
   "NotConnected", "AddrInUse", "AddrNotAvailable", "NetworkDown",
   "BrokenPipe", "AlreadyExists", "WouldBlock", "NotADirectory",
   "IsADirectory", "DirectoryNotEmpty", "ReadOnlyFilesystem",
   "FilesystemLoop", "StaleNetworkFileHandle", "InvalidInput", "InvalidData",
   "TimedOut", "WriteZero", "StorageFull", "NotSeekable", "QuotaExceeded",
   "FileTooLarge", "ResourceBusy", "ExecutableFileBusy", "Deadlock",
   "CrossesDevices", "TooManyLinks", "InvalidFilename",
   "ArgumentListTooLong", "Interrupted", "Unsupported", "UnexpectedEof",
   "OutOfMemory", "InProgress", "Other", "Uncategorized"}

(***************************************************************************)
(* impl From<std::io::ErrorKind> for ExitCode: the arms of the match in    *)
(* source order.  cfg = TRUE marks an arm under                            *)
(* #[cfg(feature = "extended_io_error")]; wild = TRUE is the arm "_".      *)
(***************************************************************************)
ErrorKindArms ==
  << [cfg |-> FALSE, wild |-> FALSE, out |-> "NoInput",
      pats |-> {"NotFound"}],
     [cfg |-> FALSE, wild |-> FALSE, out |-> "NoPerm",
      pats |-> {"PermissionDenied"}],
     [cfg |-> FALSE, wild |-> FALSE, out |-> "OsErr",
      pats |-> {"ConnectionRefused", "OutOfMemory"}],
     [cfg |-> FALSE, wild |-> FALSE, out |-> "TempFail",
      pats |-> {"ConnectionReset", "ConnectionAborted", "NotConnected",
                "BrokenPipe", "TimedOut", "Interrupted"}],
     [cfg |-> TRUE,  wild |-> FALSE, out |-> "NoHost",
      pats |-> {"HostUnreachable", "NetworkUnreachable"}],
     [cfg |-> FALSE, wild |-> FALSE, out |-> "Unavailable",
      pats |-> {"AddrInUse", "AddrNotAvailable"}],
     [cfg |-> TRUE,  wild |-> FALSE, out |-> "Unavailable",
      pats |-> {"NetworkDown"}],
     [cfg |-> FALSE, wild |-> FALSE, out |-> "CantCreat",
      pats |-> {"AlreadyExists"}],
     [cfg |-> FALSE, wild |-> FALSE, out |-> "Protocol",
      pats |-> {"WouldBlock", "Unsupported"}],
     [cfg |-> TRUE,  wild |-> FALSE, out |-> "CantCreat",
      pats |-> {"ReadOnlyFilesystem"}],
     [cfg |-> FALSE, wild |-> FALSE, out |-> "DataErr",
      pats |-> {"InvalidInput", "InvalidData"}],
     [cfg |-> FALSE, wild |-> FALSE, out |-> "Software",
      pats |-> {"WriteZero", "UnexpectedEof"}],
     [cfg |-> FALSE, wild |-> TRUE,  out |-> "IoErr",
      pats |-> {}] >>

\* The first arm that is compiled in and matches decides; a kind no arm
\* matches has no exit code.
RECURSIVE MatchKind(_, _, _, _)
MatchKind(arms, i, kind, feature) ==
  IF i > Len(arms) THEN ErrVal([kind |-> kind])
  ELSE IF (arms[i].cfg => feature) /\ (arms[i].wild \/ kind \in arms[i].pats)
       THEN CodeVal(arms[i].out)
  ELSE MatchKind(arms, i + 1, kind, feature)

\* The match without its last arm "_ => Self::IoErr".
from_io_error_kind_to_exit_code_partial(kind, feature) ==
  MatchKind(SubSeq(ErrorKindArms, 1, Len(ErrorKindArms) - 1), 1, kind, feature)

\* The unreachable-host arm yielding OsErr, compiled in unconditionally.
from_io_error_kind_to_exit_code_unreachable_oserr(kind, feature) ==
  MatchKind([ErrorKindArms EXCEPT ![5].out = "OsErr", ![5].cfg = FALSE],
            1, kind, feature)

\* The connection arm of the earlier table: reset, aborted and not connected
\* are protocol errors, the other three have no arm.
from_io_error_kind_to_exit_code_earlier(kind, feature) ==
  MatchKind([ErrorKindArms EXCEPT
               ![4].out = "Protocol",
               ![4].pats = {"ConnectionReset", "ConnectionAborted",
                            "NotConnected"}],
            1, kind, feature)

\* UnexpectedEof in the data arm, as in the earlier table.
from_io_error_kind_to_exit_code_eof_data(kind, feature) ==
  MatchKind([ErrorKindArms EXCEPT
               ![11].pats = {"InvalidInput", "InvalidData", "UnexpectedEof"}],
            1, kind, feature)

\* The last arm yielding Software.
from_io_error_kind_to_exit_code_fallback_software(kind, feature) ==
  MatchKind([ErrorKindArms EXCEPT ![13].out = "Software"], 1, kind, feature)

\* The last arm yielding Ok: a kind no arm names taken as no error.
from_io_error_kind_to_exit_code_fallback_ok(kind, feature) ==
  MatchKind([ErrorKindArms EXCEPT ![13].out = "Ok"], 1, kind, feature)

from_io_error_kind_to_exit_code(kind, feature) ==
  MatchKind(ErrorKindArms, 1, kind, feature)

(***************************************************************************)
(* std::io::Error: a kind and what else the error carries (nothing, a      *)
(* custom payload with a message, or a raw OS error code).                 *)
(***************************************************************************)
ErrorPayloads == {"simple", "custom: file not found", "custom: oops", "os"}

IoError == [kind : ErrorKind, payload : ErrorPayloads]

\* error.kind()
io_error_kind(error) == error.kind

\* Errors that carry a custom payload classified as Other-like IoErr, the
\* kind being looked at for the rest only.
from_io_error_to_exit_code_payload(error, feature) ==
  IF error.payload \in {"custom: file not found", "custom: oops"}
  THEN CodeVal("IoErr")
  ELSE from_io_error_kind_to_exit_code(io_error_kind(error), feature)

\* impl From<std::io::Error> for ExitCode: error.kind().into()
from_io_error_to_exit_code(error, feature) ==
  from_io_error_kind_to_exit_code(io_error_kind(error), feature)

(***************************************************************************)
(* std::process::ExitStatus: the child exited with an i32 code, or was     *)
(* terminated by a signal and has no code.                                 *)
(***************************************************************************)
Signals == {9, 15}

ExitStatus ==
  { [how |-> "exited", n |-> n] : n \in Inputs("i32") }
    \cup { [how |-> "signaled", n |-> sig] : sig \in Signals }

\* status.code()
exit_status_code(status) ==
  IF status.how = "exited" THEN Some(status.n) ELSE None

(***************************************************************************)
(* struct TryFromExitStatusError(Option<i32>)                              *)
(***************************************************************************)
TryFromExitStatusError_new(c) == [type |-> "TryFromExitStatusError", code |-> c]

TryFromExitStatusError_code(e) == e.code

(***************************************************************************)
(* impl TryFrom<std::process::ExitStatus> for ExitCode: the arms           *)
(* Some(0), Some(64), ..., Some(78) of the match on status.code(), then    *)
(* "Some(code) => Err(new(Some(code)))" and "None => Err(new(None))".      *)
(***************************************************************************)
ExitStatusArms ==
  << [pat |-> Some(0),  out |-> "Ok"],
     [pat |-> Some(64), out |-> "Usage"],
     [pat |-> Some(65), out |-> "DataErr"],
     [pat |-> Some(66), out |-> "NoInput"],
     [pat |-> Some(67), out |-> "NoUser"],
     [pat |-> Some(68), out |-> "NoHost"],
     [pat |-> Some(69), out |-> "Unavailable"],
     [pat |-> Some(70), out |-> "Software"],
     [pat |-> Some(71), out |-> "OsErr"],
     [pat |-> Some(72), out |-> "OsFile"],
     [pat |-> Some(73), out |-> "CantCreat"],
     [pat |-> Some(74), out |-> "IoErr"],
     [pat |-> Some(75), out |-> "TempFail"],
     [pat |-> Some(76), out |-> "Protocol"],
     [pat |-> Some(77), out |-> "NoPerm"],
     [pat |-> Some(78), out |-> "Config"] >>

RECURSIVE MatchStatus(_, _, _)
MatchStatus(arms, i, c) ==
  IF i <= Len(arms)
  THEN IF arms[i].pat = c THEN OkVal(arms[i].out)
       ELSE MatchStatus(arms, i + 1, c)
  ELSE IF c.tag = "Some"
       THEN ErrVal(TryFromExitStatusError_new(Some(c.x)))
       ELSE ErrVal(TryFromExitStatusError_new(None))

\* The arm for 74 missing, as if the table had been typed with a gap.
try_from_process_exit_status_to_exit_code_gap(status) ==
  MatchStatus(SubSeq(ExitStatusArms, 1, 11) \o SubSeq(ExitStatusArms, 13, 16),
              1, exit_status_code(status))

\* The code cut to the byte a Unix parent sees before it goes into the error.
try_from_process_exit_status_to_exit_code_byte(status) ==
  LET r == MatchStatus(ExitStatusArms, 1, exit_status_code(status))
  IN  IF r.tag = "Err" /\ r.e.code.tag = "Some"
      THEN ErrVal(TryFromExitStatusError_new(Some(AsCast(r.e.code.x, "u8"))))
      ELSE r

\* A missing code replaced by -1 before the match.
try_from_process_exit_status_to_exit_code_unwrap_or(status) ==
  LET c == exit_status_code(status)
  IN  MatchStatus(ExitStatusArms, 1, IF c.tag = "Some" THEN c ELSE Some(-1))

try_from_process_exit_status_to_exit_code(status) ==
  MatchStatus(ExitStatusArms, 1, exit_status_code(status))

(***************************************************************************)
(* type Result<T> = core::result::Result<T, ExitCode>, for three payload   *)
(* types T: (), u8 and ExitCode itself.                                    *)
(***************************************************************************)
Payloads ==
  {[ty |-> "unit"], [ty |-> "u8", n |-> 0], [ty |-> "u8", n |-> 42],
   [ty |-> "ExitCode", v |-> "Usage"]}

Results == { OkVal(x) : x \in Payloads } \cup { ErrVal(v) : v \in ExitCode }

\* Every failure reported as Software.
from_result_type_to_exit_code_flat(result) ==
  IF result.tag = "Err" THEN "Software" ELSE "Ok"

\* An Err that carries Ok reported as Software.
from_result_type_to_exit_code_err_ok_software(result) ==
  IF result.tag = "Err"
  THEN (IF result.e = "Ok" THEN "Software" ELSE result.e)
  ELSE "Ok"

\* impl<T> From<Result<T>> for ExitCode:
\* result.map_or_else(|code| code, |_| Self::Ok)
from_result_type_to_exit_code(result) ==
  IF result.tag = "Err" THEN result.e ELSE "Ok"

(***************************************************************************)
(* ExitCode::is_success and ExitCode::is_failure                           *)
(***************************************************************************)
\* Success taken to be every value up to the base value.
is_success_upto_base(self) == Discriminant(self) <= 64

\* matches!(self, Self::Ok)
is_success(self) == self = "Ok"

\* Failure taken to be every value above the base value.
is_failure_above_base(self) == Discriminant(self) > 64

\* !self.is_success()
is_failure(self) == ~is_success(self)

(***************************************************************************)
(* Ending the process.                                                     *)
(***************************************************************************)
\* std::process::ExitCode::from(byte)
ProcessExitCode(byte) == [tag |-> "process_exit_code", byte |-> byte]

\* impl Termination for ExitCode:
\* std::process::ExitCode::from(u8::from(self))
report(self) == ProcessExitCode(from_exit_code_to_integer(self, "u8"))

\* The conversion flattened to ExitCode::SUCCESS and ExitCode::FAILURE.
from_exit_code_to_process_exit_code_flat(code) ==
  ProcessExitCode(IF is_success(code) THEN 0 ELSE 1)

\* impl From<ExitCode> for std::process::ExitCode: code.report()
from_exit_code_to_process_exit_code(code) == report(code)

\* The process exited with 1 on every failure.
exit_flag(self) == Exited(IF is_failure(self) THEN 1 ELSE 0)

\* ExitCode::exit: std::process::exit(self.into()), the status being an i32
exit(self) == Exited(from_exit_code_to_integer(self, "i32"))

(***************************************************************************)
(* struct TryFromErrorKindError(io::ErrorKind)                             *)
(***************************************************************************)
TryFromErrorKindError_new(k) == [type |-> "TryFromErrorKindError", kind |-> k]

TryFromErrorKindError_kind(e) == e.kind

(***************************************************************************)
(* impl TryFrom<std::io::ErrorKind> for ExitCode: the arms of the match in *)
(* source order, then "k => Err(TryFromErrorKindError(k))".                *)
(***************************************************************************)
TryFromErrorKindArms ==
  << [out |-> "NoInput",     pats |-> {"NotFound"}],
     [out |-> "NoPerm",      pats |-> {"PermissionDenied"}],
     [out |-> "Protocol",    pats |-> {"ConnectionRefused", "ConnectionReset",
                                       "ConnectionAborted", "NotConnected"}],
     [out |-> "Unavailable", pats |-> {"AddrInUse", "AddrNotAvailable"}],
     [out |-> "CantCreat",   pats |-> {"AlreadyExists"}],
     [out |-> "DataErr",     pats |-> {"InvalidInput", "InvalidData",
                                       "UnexpectedEof"}] >>

\* The first arm that matches decides; the binding arm "k" takes the rest.
RECURSIVE MatchTryKind(_, _, _)
MatchTryKind(arms, i, k) ==
  IF i > Len(arms) THEN ErrVal(TryFromErrorKindError_new(k))
  ELSE IF k \in arms[i].pats THEN OkVal(arms[i].out)
  ELSE MatchTryKind(arms, i + 1, k)

\* The error built from ErrorKind::Other instead of the kind passed in.
try_from_io_error_kind_to_exit_code_other(k) ==
  LET r == MatchTryKind(TryFromErrorKindArms, 1, k)
  IN  IF r.tag = "Err" THEN ErrVal(TryFromErrorKindError_new("Other")) ELSE r

try_from_io_error_kind_to_exit_code(k) ==
  MatchTryKind(TryFromErrorKindArms, 1, k)

(***************************************************************************)
(* The associated constants of ExitCode.                                   *)
(***************************************************************************)
\* The base taken to be the first declared variant.
BASE_first == ExitCodeDecl[1].name

\* pub const BASE: Self = Self::Usage;
BASE == "Usage"

\* pub const MAX: Self = Self::Config;
MAX == "Config"

(***************************************************************************)
(* The default value.  A derived Default on an enum returns the variant    *)
(* marked #[default]; without the derive or an impl the type has none.     *)
(***************************************************************************)
\* #[derive(Clone, Copy, Debug, Eq, PartialEq)]
Derives == {"Clone", "Copy", "Debug", "Eq", "PartialEq"}

\* The variants that carry the #[default] attribute: none does.
DefaultAttr == {}

\* <ExitCode as Default>::default(), if the type implements Default
default ==
  IF "Default" \in Derives /\ DefaultAttr # {}
  THEN Some(CHOOSE v \in DefaultAttr : TRUE)
  ELSE None

(***************************************************************************)
(* Formatting.  Every formatting impl of ExitCode is                       *)
(* "u8::from(self).fmt(f)": the code is converted to u8 and the u8 is      *)
(* formatted by the same trait under the same formatter.                   *)
(***************************************************************************)
\* The minimum widths a format spec gives (0: none given).
Widths == {0, 2, 3, 4, 5, 7, 9, 10}

\* core::fmt::Formatter: the '#' flag, the '0' flag and the minimum width.
Formatter == [alternate : BOOLEAN, zero : BOOLEAN, width : Widths]

\* The formatting traits implemented for ExitCode.
FmtTraits == {"Display", "Octal", "LowerHex", "UpperHex", "Binary",
              "LowerExp", "UpperExp"}

LowerDigits == <<"0", "1", "2", "3", "4", "5", "6", "7", "8", "9",
                 "a", "b", "c", "d", "e", "f">>
UpperDigits == <<"0", "1", "2", "3", "4", "5", "6", "7", "8", "9",
                 "A", "B", "C", "D", "E", "F">>

\* The digits of n >= 0 in the given radix, most significant first.
RECURSIVE Digits(_, _, _)
Digits(n, radix, chars) ==
  IF n < radix THEN chars[n + 1]
  ELSE Digits(n \div radix, radix, chars) \o chars[(n % radix) + 1]

\* k copies of the character c.
RECURSIVE Repeat(_, _)
Repeat(c, k) == IF k <= 0 THEN "" ELSE c \o Repeat(c, k - 1)

\* Formatter::pad_integral for a non-negative integer: the prefix is
\* written under '#' only; a result shorter than the width is filled with
\* zeros after the prefix under '0', else with spaces on the left.
pad_integral(f, prefix, buf) ==
  LET pre == IF f.alternate THEN prefix ELSE ""
      len == Len(pre) + Len(buf)
  IN  IF len >= f.width THEN pre \o buf
      ELSE IF f.zero THEN pre \o Repeat("0", f.width - len) \o buf
      ELSE Repeat(" ", f.width - len) \o pre \o buf

\* Formatter::pad_formatted_parts for a result without sign.
pad_formatted_parts(f, s) ==
  IF Len(s) >= f.width THEN s
  ELSE Repeat(IF f.zero THEN "0" ELSE " ", f.width - Len(s)) \o s

\* The trailing decimal zeros of n that the exponent form removes
\* ("while n % 10 == 0 && n >= 10").
RECURSIVE TrailingZeros(_)
TrailingZeros(n) ==
  IF n % 10 = 0 /\ n >= 10 THEN 1 + TrailingZeros(n \div 10) ELSE 0

\* The exponent form of an integer: the first digit, then '.' and the
\* other digits down to the last non-zero one if there are any, then the
\* exponent letter and the decimal exponent.
exp_u8(n, f, letter) ==
  LET zeros == TrailingZeros(n)
      digits == Digits(n \div (10 ^ zeros), 10, LowerDigits)
      exponent == zeros + Len(digits) - 1
      mantissa == IF Len(digits) > 1
                  THEN SubSeq(digits, 1, 1) \o "." \o
                       SubSeq(digits, 2, Len(digits))
                  ELSE digits
  IN  pad_formatted_parts(f, mantissa \o letter \o
                             Digits(exponent, 10, LowerDigits))

\* impl fmt::$Trait for u8
u8_Display_fmt(n, f)  == pad_integral(f, "", Digits(n, 10, LowerDigits))
u8_Octal_fmt(n, f)    == pad_integral(f, "0o", Digits(n, 8, LowerDigits))
u8_LowerHex_fmt(n, f) == pad_integral(f, "0x", Digits(n, 16, LowerDigits))
u8_UpperHex_fmt(n, f) == pad_integral(f, "0x", Digits(n, 16, UpperDigits))
u8_Binary_fmt(n, f)   == pad_integral(f, "0b", Digits(n, 2, LowerDigits))
u8_LowerExp_fmt(n, f) == exp_u8(n, f, "e")
u8_UpperExp_fmt(n, f) == exp_u8(n, f, "E")

\* Display through the hexadecimal formatting of the integer.
Display_fmt_lower_hex(self, f) ==
  u8_LowerHex_fmt(from_exit_code_to_integer(self, "u8"), f)

\* impl fmt::Display for ExitCode
Display_fmt(self, f) ==
  u8_Display_fmt(from_exit_code_to_integer(self, "u8"), f)

\* impl fmt::Octal for ExitCode
Octal_fmt(self, f) ==
  u8_Octal_fmt(from_exit_code_to_integer(self, "u8"), f)

\* impl fmt::LowerHex for ExitCode
LowerHex_fmt(self, f) ==
  u8_LowerHex_fmt(from_exit_code_to_integer(self, "u8"), f)

\* UpperHex with the body of LowerHex.
UpperHex_fmt_lower(self, f) ==
  u8_LowerHex_fmt(from_exit_code_to_integer(self, "u8"), f)

\* impl fmt::UpperHex for ExitCode
UpperHex_fmt(self, f) ==
  u8_UpperHex_fmt(from_exit_code_to_integer(self, "u8"), f)

\* impl fmt::Binary for ExitCode
Binary_fmt(self, f) ==
  u8_Binary_fmt(from_exit_code_to_integer(self, "u8"), f)

\* impl fmt::LowerExp for ExitCode
LowerExp_fmt(self, f) ==
  u8_LowerExp_fmt(from_exit_code_to_integer(self, "u8"), f)

\* impl fmt::UpperExp for ExitCode
UpperExp_fmt(self, f) ==
  u8_UpperExp_fmt(from_exit_code_to_integer(self, "u8"), f)

\* format!("{:<spec><trait>}", self): the trait the format string names
format(trait, self, f) ==
  CASE trait = "Display"  -> Display_fmt(self, f)
    [] trait = "Octal"    -> Octal_fmt(self, f)
    [] trait = "LowerHex" -> LowerHex_fmt(self, f)
    [] trait = "UpperHex" -> UpperHex_fmt(self, f)
    [] trait = "Binary"   -> Binary_fmt(self, f)
    [] trait = "LowerExp" -> LowerExp_fmt(self, f)
    [] trait = "UpperExp" -> UpperExp_fmt(self, f)

(***************************************************************************)
(* The textual form of the conversion errors.                              *)
(***************************************************************************)
\* The grave accent (U+0060) that encloses the code in the message.  A TLA+
\* string cannot hold that character; the apostrophe, which occurs nowhere
\* else in the messages, stands for it.
Grave == "'"

\* impl fmt::Display for i32, as "{code}" uses it: no flags, no width
i32_Display_fmt(n) ==
  IF n < 0 THEN "-" \o Digits(-n, 10, LowerDigits)
  ELSE Digits(n, 10, LowerDigits)

\* impl fmt::Debug for Option<i32>
Option_i32_Debug_fmt(o) ==
  IF o.tag = "Some" THEN "Some(" \o i32_Display_fmt(o.x) \o ")" ELSE "None"

\* The Option written as it is, without taking the code out of it.
TryFromExitStatusError_fmt_debug(self) ==
  "invalid exit code " \o Grave \o
    Option_i32_Debug_fmt(TryFromExitStatusError_code(self)) \o Grave

\* impl fmt::Display for TryFromExitStatusError
TryFromExitStatusError_fmt(self) ==
  LET c == TryFromExitStatusError_code(self)
  IN  IF c.tag = "Some"
      THEN "invalid exit code " \o Grave \o i32_Display_fmt(c.x) \o Grave
      ELSE "exit code is unknown"

\* impl fmt::Display for ExitCodeRangeError
ExitCodeRangeError_fmt(self) == "value is out of range"

(***************************************************************************)
(* The caller.                                                             *)
(***************************************************************************)
Init ==
  /\ ext \in BOOLEAN
  /\ op = "none"
  /\ arg = NoArg
  /\ res = NoArg
  /\ prev = NoCall
  /\ proc = Alive

\* The process has not exited.
Running == proc.running

\* The caller runs and holds nothing.
Idle == Running /\ op = "none"

\* The record of the call just made, for the call its result is fed into.
ThisCall == [op |-> op, arg |-> arg, res |-> res]

\* The caller lets go of the values it holds.
Drop ==
  /\ Running
  /\ op # "none"
  /\ op' = "none"
  /\ arg' = NoArg
  /\ res' = NoArg
  /\ prev' = NoCall
  /\ UNCHANGED <<ext, proc>>

\* a == b on two exit codes
CallEq ==
  \E a \in ExitCode, b \in ExitCode :
    /\ Idle
    /\ op' = "eq"
    /\ arg' = [tag |-> "pair", a |-> a, b |-> b]
    /\ res' = BoolVal(PartialEq(a, b))
    /\ prev' = NoCall
    /\ UNCHANGED <<ext, proc>>

\* T::from(code)
CallFromExitCodeToInteger ==
  \E code \in ExitCode, T \in IntTypes :
    /\ Idle
    /\ op' = "from_exit_code_to_integer"
    /\ arg' = [tag |-> "code", v |-> code, T |-> T]
    /\ res' = IntVal(T, from_exit_code_to_integer(code, T))
    /\ prev' = NoCall
    /\ UNCHANGED <<ext, proc>>

\* ExitCode::try_from(value) on an integer the caller made up
CallTryFromInteger ==
  \E T \in IntTypes :
    \E value \in Inputs(T) :
      /\ Idle
      /\ op' = "try_from_integer_to_exit_code"
      /\ arg' = IntVal(T, value)
      /\ res' = try_from_integer_to_exit_code(T, value)
      /\ prev' = NoCall
      /\ UNCHANGED <<ext, proc>>

\* ExitCode::try_from(T::from(code)): the integer just obtained from a code
\* is converted back
CallTryFromConverted ==
  /\ Running
  /\ op = "from_exit_code_to_integer"
  /\ op' = "try_from_integer_to_exit_code"
  /\ arg' = res
  /\ res' = try_from_integer_to_exit_code(res.T, res.n)
  /\ prev' = [op |-> op, arg |-> arg, res |-> res]
  /\ UNCHANGED <<ext, proc>>

\* ExitCode::from(kind)
CallFromIoErrorKind ==
  \E kind \in ErrorKind :
    /\ Idle
    /\ op' = "from_io_error_kind_to_exit_code"
    /\ arg' = [tag |-> "kind", kind |-> kind]
    /\ res' = from_io_error_kind_to_exit_code(kind, ext)
    /\ prev' = NoCall
    /\ UNCHANGED <<ext, proc>>

\* ExitCode::from(error)
CallFromIoError ==
  \E error \in IoError :
    /\ Idle
    /\ op' = "from_io_error_to_exit_code"
    /\ arg' = [tag |-> "error", error |-> error]
    /\ res' = from_io_error_to_exit_code(error, ext)
    /\ prev' = NoCall
    /\ UNCHANGED <<ext, proc>>

\* ExitCode::from(kind) on the kind of the error just converted
CallFromKindOfError ==
  /\ Running
  /\ op = "from_io_error_to_exit_code"
  /\ op' = "from_io_error_kind_to_exit_code"
  /\ arg' = [tag |-> "kind", kind |-> io_error_kind(arg.error)]
  /\ res' = from_io_error_kind_to_exit_code(io_error_kind(arg.error), ext)
  /\ prev' = ThisCall
  /\ UNCHANGED <<ext, proc>>

\* code.report()
CallReport ==
  \E code \in ExitCode :
    /\ Idle
    /\ op' = "report"
    /\ arg' = CodeVal(code)
    /\ res' = report(code)
    /\ prev' = NoCall
    /\ UNCHANGED <<ext, proc>>

\* std::process::ExitCode::from(code)
CallFromExitCodeToProcessExitCode ==
  \E code \in ExitCode :
    /\ Idle
    /\ op' = "from_exit_code_to_process_exit_code"
    /\ arg' = CodeVal(code)
    /\ res' = from_exit_code_to_process_exit_code(code)
    /\ prev' = NoCall
    /\ UNCHANGED <<ext, proc>>

\* code.exit(): the call does not return, the caller's state stays as it is
\* for good
CallExit ==
  \E code \in ExitCode :
    /\ Idle
    /\ op' = "exit"
    /\ arg' = CodeVal(code)
    /\ res' = NoArg
    /\ prev' = NoCall
    /\ proc' = exit(code)
    /\ UNCHANGED ext

\* "fn main() -> ExitCode" returns code: the runtime takes code.report() as
\* the status of the process
ReturnFromMain ==
  \E code \in ExitCode :
    /\ Idle
    /\ op' = "main"
    /\ arg' = CodeVal(code)
    /\ res' = report(code)
    /\ prev' = NoCall
    /\ proc' = Exited(report(code).byte)
    /\ UNCHANGED ext

\* A conversion whose error arm ends the process with the child's code.
CallTryFromExitStatusOrExit ==
  \E status \in ExitStatus :
    LET r == try_from_process_exit_status_to_exit_code(status)
    IN  /\ Idle
        /\ op' = "try_from_process_exit_status_to_exit_code"
        /\ arg' = [tag |-> "status", status |-> status]
        /\ res' = r
        /\ prev' = NoCall
        /\ proc' = IF r.tag = "Err" THEN Exited(status.n) ELSE proc
        /\ UNCHANGED ext

\* ExitCode::try_from(status)
CallTryFromExitStatus ==
  \E status \in ExitStatus :
    /\ Idle
    /\ op' = "try_from_process_exit_status_to_exit_code"
    /\ arg' = [tag |-> "status", status |-> status]
    /\ res' = try_from_process_exit_status_to_exit_code(status)
    /\ prev' = NoCall
    /\ UNCHANGED <<ext, proc>>

\* ExitCode::from(result)
CallFromResult ==
  \E result \in Results :
    /\ Idle
    /\ op' = "from_result_type_to_exit_code"
    /\ arg' = [tag |-> "result", result |-> result]
    /\ res' = CodeVal(from_result_type_to_exit_code(result))
    /\ prev' = NoCall
    /\ UNCHANGED <<ext, proc>>

\* code.is_success()
CallIsSuccess ==
  \E code \in ExitCode :
    /\ Idle
    /\ op' = "is_success"
    /\ arg' = CodeVal(code)
    /\ res' = BoolVal(is_success(code))
    /\ prev' = NoCall
    /\ UNCHANGED <<ext, proc>>

\* code.is_failure()
CallIsFailure ==
  \E code \in ExitCode :
    /\ Idle
    /\ op' = "is_failure"
    /\ arg' = CodeVal(code)
    /\ res' = BoolVal(is_failure(code))
    /\ prev' = NoCall
    /\ UNCHANGED <<ext, proc>>

\* format!("{...}", code) under one of the formatting traits
CallFormat ==
  \E code \in ExitCode, trait \in FmtTraits, f \in Formatter :
    /\ Idle
    /\ op' = "format"
    /\ arg' = [tag |-> "fmt", v |-> code, trait |-> trait, f |-> f]
    /\ res' = StrVal(format(trait, code, f))
    /\ prev' = NoCall
    /\ UNCHANGED <<ext, proc>>

\* ExitCode::BASE or ExitCode::MAX is read
CallConst ==
  \E name \in {"BASE", "MAX"} :
    /\ Idle
    /\ op' = "const"
    /\ arg' = [tag |-> "const", name |-> name]
    /\ res' = CodeVal(IF name = "BASE" THEN BASE ELSE MAX)
    /\ prev' = NoCall
    /\ UNCHANGED <<ext, proc>>

\* The caller asks for the default value of ExitCode (None: the type has
\* none)
CallDefault ==
  /\ Idle
  /\ op' = "default"
  /\ arg' = NoArg
  /\ res' = default
  /\ prev' = NoCall
  /\ UNCHANGED <<ext, proc>>

\* e.to_string() on the error of the conversion that just failed; the
\* caller keeps the error and its text
CallErrorToString ==
  /\ Running
  /\ op \in {"try_from_integer_to_exit_code",
             "try_from_process_exit_status_to_exit_code"}
  /\ res.tag = "Err"
  /\ IF op = "try_from_integer_to_exit_code"
     THEN /\ op' = "ExitCodeRangeError_fmt"
          /\ res' = StrVal(ExitCodeRangeError_fmt(res.e))
     ELSE /\ op' = "TryFromExitStatusError_fmt"
          /\ res' = StrVal(TryFromExitStatusError_fmt(res.e))
  /\ arg' = [tag |-> "error", e |-> res.e]
  /\ prev' = NoCall
  /\ UNCHANGED <<ext, proc>>

\* ExitCode::try_from(kind)
CallTryFromIoErrorKind ==
  \E k \in ErrorKind :
    /\ Idle
    /\ op' = "try_from_io_error_kind_to_exit_code"
    /\ arg' = [tag |-> "kind", kind |-> k]
    /\ res' = try_from_io_error_kind_to_exit_code(k)
    /\ prev' = NoCall
    /\ UNCHANGED <<ext, proc>>

\* T::from(v) for the Ok(v) that ExitCode::try_from just returned for an
\* integer of type T: the code is converted back to the width it came from
CallFromConvertedBack ==
  /\ Running
  /\ op = "try_from_integer_to_exit_code"
  /\ res.tag = "Ok"
  /\ op' = "from_exit_code_to_integer"
  /\ arg' = [tag |-> "code", v |-> res.v, T |-> arg.T]
  /\ res' = IntVal(arg.T, from_exit_code_to_integer(res.v, arg.T))
  /\ prev' = [op |-> op, arg |-> arg, res |-> res]
  /\ UNCHANGED <<ext, proc>>

\* ExitCode::from(kind).is_failure(): the predicate on the code the
\* classifier just returned
CallIsFailureOfClassified ==
  /\ Running
  /\ op = "from_io_error_kind_to_exit_code"
  /\ op' = "is_failure"
  /\ arg' = res
  /\ res' = BoolVal(is_failure(res.v))
  /\ prev' = [op |-> op, arg |-> arg, res |-> res]
  /\ UNCHANGED <<ext, proc>>

\* ExitCode::from(result).is_success(): the predicate on the code the
\* Result was just collapsed to
CallIsSuccessOfCollapsed ==
  /\ Running
  /\ op = "from_result_type_to_exit_code"
  /\ op' = "is_success"
  /\ arg' = res
  /\ res' = BoolVal(is_success(res.v))
  /\ prev' = [op |-> op, arg |-> arg, res |-> res]
  /\ UNCHANGED <<ext, proc>>

Next ==
  \/ Drop
  \/ CallReport
  \/ CallFromExitCodeToProcessExitCode
  \/ CallExit
  \/ ReturnFromMain
  \/ CallFromResult
  \/ CallIsSuccess
  \/ CallIsFailure
  \/ CallTryFromExitStatus
  \/ CallFromIoError
  \/ CallFromKindOfError
  \/ CallEq
  \/ CallFromExitCodeToInteger
  \/ CallTryFromInteger
  \/ CallTryFromConverted
  \/ CallFromIoErrorKind
  \/ CallFormat
  \/ CallConst
  \/ CallDefault
  \/ CallErrorToString
  \/ CallTryFromIoErrorKind
  \/ CallFromConvertedBack
  \/ CallIsFailureOfClassified
  \/ CallIsSuccessOfCollapsed

Spec == Init /\ [][Next]_vars

(***************************************************************************)
(* The claims.                                                             *)
(***************************************************************************)
\* The values of sysexits.h, as the documentation states them.
SysexitsTable ==
  [Ok |-> 0, Usage |-> 64, DataErr |-> 65, NoInput |-> 66, NoUser |-> 67,
   NoHost |-> 68, Unavailable |-> 69, Software |-> 70, OsErr |-> 71,
   OsFile |-> 72, CantCreat |-> 73, IoErr |-> 74, TempFail |-> 75,
   Protocol |-> 76, NoPerm |-> 77, Config |-> 78]

\* n is 0 or in 64..=78
Legal(n) == n = 0 \/ (64 <= n /\ n <= 78)

IsTryFromInteger == op = "try_from_integer_to_exit_code"
IsFromKind == op = "from_io_error_kind_to_exit_code"

\* C1: the 16 variants map one-to-one onto {0} \cup 64..78 with the values
\* of the sysexits table, and == holds of two variants exactly when they are
\* the same variant.
C1_Bijection ==
  /\ Cardinality(ExitCode) = 16
  /\ ExitCode = DOMAIN SysexitsTable
  /\ \A v \in ExitCode : Discriminant(v) = SysexitsTable[v]
  /\ { Discriminant(v) : v \in ExitCode } = {0} \cup (64..78)
  /\ \A a \in ExitCode, b \in ExitCode :
       a # b => Discriminant(a) # Discriminant(b)
  /\ op = "eq" => res = BoolVal(arg.a = arg.b)

C1_Witness ==
  op = "eq" /\ arg.a = "OsErr" /\ arg.b = "OsFile" /\ res = BoolVal(FALSE)

\* C2: try_from on an integer of any of the 12 types that is 0 or in 64..=78
\* returns Ok of the variant whose value is that integer.
C2_TryFromLegal ==
  (IsTryFromInteger /\ Legal(arg.n)) =>
    /\ arg.T \in IntTypes
    /\ res.tag = "Ok"
    /\ res.v \in ExitCode
    /\ Discriminant(res.v) = arg.n

C2_Witness ==
  /\ IsTryFromInteger /\ prev = NoCall
  /\ arg = IntVal("u128", 72) /\ res = OkVal("OsFile")

\* C3: try_from on an integer that is neither 0 nor in 64..=78 (negative, in
\* 1..=63, or 79 and above) returns Err(ExitCodeRangeError).
C3_TryFromIllegal ==
  (IsTryFromInteger /\ ~Legal(arg.n)) => res = ErrVal(ExitCodeRangeError)

\* 320 is 64 modulo 256, -191 is 65 modulo 256
C3_Witness ==
  /\ IsTryFromInteger
  /\ \/ arg = IntVal("i16", 320)
     \/ arg = IntVal("i64", -191)
  /\ res = ErrVal(ExitCodeRangeError)

\* C4: converting a variant to an integer type and the integer back returns
\* Ok of the same variant.
C4_RoundTrip ==
  (IsTryFromInteger /\ prev # NoCall) =>
    /\ prev.op = "from_exit_code_to_integer"
    /\ arg = prev.res
    /\ arg.T = prev.arg.T
    /\ res = OkVal(prev.arg.v)

C4_Witness ==
  /\ IsTryFromInteger /\ prev # NoCall
  /\ prev.arg.v = "Config" /\ prev.arg.T = "i8"
  /\ arg = IntVal("i8", 78) /\ res = OkVal("Config")

\* C5: converting a variant to any of the 12 integer types yields an integer
\* of that type equal to the variant's value, 0 or in 64..=78, unwrapped and
\* non-negative also for i8.
C5_IntegerFrom ==
  op = "from_exit_code_to_integer" =>
    /\ res.tag = "int"
    /\ res.T = arg.T
    /\ res.n = Discriminant(arg.v)
    /\ res.n = SysexitsTable[arg.v]
    /\ Legal(res.n)
    /\ InType(res.n, arg.T)
    /\ arg.T = "i8" => (0 <= res.n /\ res.n < 128)

C5_Witness ==
  /\ op = "from_exit_code_to_integer"
  /\ arg.v = "Config" /\ arg.T = "i8" /\ res = IntVal("i8", 78)

C9_Unconditional ==
  /\ arg.kind = "NotFound" => res = CodeVal("NoInput")
  /\ arg.kind = "PermissionDenied" => res = CodeVal("NoPerm")
  /\ arg.kind \in {"AddrInUse", "AddrNotAvailable"}
       => res = CodeVal("Unavailable")
  /\ arg.kind = "AlreadyExists" => res = CodeVal("CantCreat")
  /\ arg.kind \in {"WouldBlock", "Unsupported"} => res = CodeVal("Protocol")
  /\ arg.kind \in {"InvalidInput", "InvalidData"} => res = CodeVal("DataErr")
  /\ arg.kind \in {"WriteZero", "UnexpectedEof"} => res = CodeVal("Software")

ClassifierListed ==
  {"NotFound", "PermissionDenied", "ConnectionRefused", "OutOfMemory",
   "ConnectionReset", "ConnectionAborted", "NotConnected", "BrokenPipe",
   "TimedOut", "Interrupted", "HostUnreachable", "NetworkUnreachable",
   "AddrInUse", "AddrNotAvailable", "NetworkDown", "AlreadyExists",
   "WouldBlock", "Unsupported", "ReadOnlyFilesystem", "InvalidInput",
   "InvalidData", "WriteZero", "UnexpectedEof"}

C11_ErrorByKind ==
  /\ op = "from_io_error_to_exit_code" =>
       /\ res.tag = "code"
       /\ \A other \in IoError :
            other.kind = arg.error.kind
              => from_io_error_to_exit_code(other, ext) = res
  /\ (IsFromKind /\ prev # NoCall) =>
       /\ prev.op = "from_io_error_to_exit_code"
       /\ arg.kind = prev.arg.error.kind
       /\ res = prev.res

C11_Witness ==
  /\ IsFromKind /\ prev # NoCall
  /\ prev.arg.error = [kind |-> "NotFound", payload |-> "custom: oops"]
  /\ prev.res = CodeVal("NoInput") /\ res = CodeVal("NoInput")

IsTryFromStatus == op = "try_from_process_exit_status_to_exit_code"

\* C12: a status with code Some(n), n = 0 or in 64..=78, converts to Ok of
\* the variant whose value is n, the variant try_from(n) returns for the
\* integer n.
C12_StatusLegal ==
  (IsTryFromStatus /\ arg.status.how = "exited" /\ Legal(arg.status.n)) =>
    /\ res.tag = "Ok"
    /\ res.v \in ExitCode
    /\ SysexitsTable[res.v] = arg.status.n
    /\ res = try_from_integer_to_exit_code("i32", arg.status.n)

C12_Witness ==
  /\ IsTryFromStatus
  /\ arg.status = [how |-> "exited", n |-> 74]
  /\ res = OkVal("IoErr")

\* C13: a status with code Some(n), n neither 0 nor in 64..=78, converts to
\* Err of a TryFromExitStatusError whose code() is Some(n).
C13_StatusIllegal ==
  (IsTryFromStatus /\ arg.status.how = "exited" /\ ~Legal(arg.status.n)) =>
    /\ res.tag = "Err"
    /\ res.e.type = "TryFromExitStatusError"
    /\ TryFromExitStatusError_code(res.e) = Some(arg.status.n)

\* 1, 63, 79, a negative code, and a code that is 64 modulo 256
C13_Witness ==
  /\ IsTryFromStatus
  /\ arg.status.how = "exited"
  /\ arg.status.n \in {1, 63, 79, -1, 320}
  /\ res = ErrVal(TryFromExitStatusError_new(Some(arg.status.n)))

\* C14: a status without a code converts to Err of a TryFromExitStatusError
\* whose code() is None, an error that differs from the error of every
\* status with a code.
C14_StatusUnknown ==
  (IsTryFromStatus /\ arg.status.how = "signaled") =>
    /\ res.tag = "Err"
    /\ res.e.type = "TryFromExitStatusError"
    /\ TryFromExitStatusError_code(res.e) = None
    /\ \A n \in Inputs("i32") :
         try_from_process_exit_status_to_exit_code(
           [how |-> "exited", n |-> n]) # res

C14_Witness ==
  /\ IsTryFromStatus
  /\ arg.status = [how |-> "signaled", n |-> 9]
  /\ res = ErrVal(TryFromExitStatusError_new(None))

\* C15: collapsing a Result yields Ok for Ok(x), whatever the payload x, and
\* v for Err(v), for every variant v.
C15_ResultCollapse ==
  op = "from_result_type_to_exit_code" =>
    /\ res.tag = "code"
    /\ arg.result.tag = "Ok" => res = CodeVal("Ok")
    /\ arg.result.tag = "Err" => res = CodeVal(arg.result.e)

C15_Witness ==
  \/ /\ op = "from_result_type_to_exit_code"
     /\ arg.result = ErrVal("TempFail") /\ res = CodeVal("TempFail")
  \/ /\ op = "from_result_type_to_exit_code"
     /\ arg.result = OkVal([ty |-> "ExitCode", v |-> "Usage"])
     /\ res = CodeVal("Ok")

\* C16: is_success() is true for Ok and false for each of the other 15
\* variants.
C16_IsSuccess ==
  op = "is_success" =>
    /\ arg.v = "Ok" => res = BoolVal(TRUE)
    /\ arg.v \in (ExitCode \ {"Ok"}) => res = BoolVal(FALSE)
    /\ Cardinality(ExitCode \ {"Ok"}) = 15

C16_Witness ==
  op = "is_success" /\ arg.v = "Usage" /\ res = BoolVal(FALSE)

\* C17: for every variant, is_failure is the negation of is_success.
C17_IsFailure ==
  op = "is_failure" =>
    /\ res.tag = "bool"
    /\ res.b = ~is_success(arg.v)
    /\ res.b # is_success(arg.v)

C17_Witness ==
  op = "is_failure" /\ arg.v = "Usage" /\ res = BoolVal(TRUE)

\* C18: exit(v) ends the process with the status equal to the value of v,
\* also in the byte a parent process sees, and does not return: from the
\* state after the call no step changes anything.
C18_Exit ==
  [][ /\ op' = "exit" =>
           /\ ~proc'.running
           /\ proc'.status = SysexitsTable[arg'.v]
           /\ AsCast(proc'.status, "u8") = SysexitsTable[arg'.v]
           /\ res' = NoArg
      /\ op = "exit" => UNCHANGED vars ]_vars

C18_Witness ==
  op = "exit" /\ arg = CodeVal("Config") /\ proc = Exited(78)

\* C19: a try_from on an integer or on a process status that returns Err
\* leaves the process running with the error in the caller's hands, and the
\* process stops running only in a step that is a call of exit() or the
\* return of an ExitCode from main.
C19_FailureKeepsRunning ==
  [][ /\ ( /\ op' \in {"try_from_integer_to_exit_code",
                      "try_from_process_exit_status_to_exit_code"}
           /\ res'.tag = "Err" ) =>
             /\ proc'.running
             /\ proc' = proc
             /\ IF op' = "try_from_integer_to_exit_code"
                THEN res'.e = ExitCodeRangeError
                ELSE res'.e.type = "TryFromExitStatusError"
      /\ (proc.running /\ ~proc'.running) => op' \in {"exit", "main"} ]_vars

C19_Witness ==
  /\ IsTryFromStatus /\ arg.status = [how |-> "exited", n |-> 1]
  /\ res.tag = "Err" /\ proc = Alive

\* C20: report() and the conversion into std::process::ExitCode both yield
\* the host exit code built from the byte u8::from(v), and agree.
C20_ReportAndInto ==
  op \in {"report", "from_exit_code_to_process_exit_code"} =>
    /\ res = ProcessExitCode(from_exit_code_to_integer(arg.v, "u8"))
    /\ res.byte = SysexitsTable[arg.v]
    /\ report(arg.v) = from_exit_code_to_process_exit_code(arg.v)

C20_Witness ==
  /\ op = "from_exit_code_to_process_exit_code"
  /\ arg = CodeVal("Usage") /\ res = ProcessExitCode(64)

IsFormat == op = "format"

\* The flags and width of "{}": none.
PlainFormatter == [alternate |-> FALSE, zero |-> FALSE, width |-> 0]

\* The decimal forms of the sysexits values.
DecimalTable ==
  [Ok |-> "0", Usage |-> "64", DataErr |-> "65", NoInput |-> "66",
   NoUser |-> "67", NoHost |-> "68", Unavailable |-> "69",
   Software |-> "70", OsErr |-> "71", OsFile |-> "72", CantCreat |-> "73",
   IoErr |-> "74", TempFail |-> "75", Protocol |-> "76", NoPerm |-> "77",
   Config |-> "78"]

\* s ends with t
EndsWith(s, t) ==
  Len(s) >= Len(t) /\ SubSeq(s, Len(s) - Len(t) + 1, Len(s)) = t

\* C21: Display renders every variant as the decimal form of its integer
\* value: Ok as "0", Usage as "64", ..., Config as "78".  Without a width
\* the rendering is exactly that string; with a width it is that string
\* filled on the left up to the width.
C21_Display ==
  (IsFormat /\ arg.trait = "Display") =>
    LET expected == DecimalTable[arg.v]
    IN  /\ arg.f.width = 0 => res.s = expected
        /\ EndsWith(res.s, expected)
        /\ Len(res.s) = (IF arg.f.width > Len(expected)
                         THEN arg.f.width ELSE Len(expected))

C21_Witness ==
  /\ IsFormat
  /\ arg.trait = "Display"
  /\ arg.v = "Config"
  /\ arg.f = PlainFormatter
  /\ res = StrVal("78")

\* C22: BASE is Usage and MAX is Config; BASE has the lowest non-zero value
\* (64) and MAX the highest value (78), and every variant other than Ok has
\* a value between those of BASE and MAX inclusive.
C22_BaseAndMax ==
  op = "const" =>
    /\ arg.name = "BASE" =>
         /\ res = CodeVal("Usage")
         /\ Discriminant(res.v) = 64
         /\ \A v \in ExitCode :
              Discriminant(v) # 0 => Discriminant(res.v) <= Discriminant(v)
    /\ arg.name = "MAX" =>
         /\ res = CodeVal("Config")
         /\ Discriminant(res.v) = 78
         /\ \A v \in ExitCode : Discriminant(v) <= Discriminant(res.v)
    /\ \A v \in ExitCode \ {"Ok"} :
         /\ Discriminant(BASE) <= Discriminant(v)
         /\ Discriminant(v) <= Discriminant(MAX)

C22_Witness ==
  /\ op = "const"
  /\ arg.name = "MAX"
  /\ res = CodeVal("Config")
  /\ Discriminant(res.v) = 78

\* C23: ExitCode has a designated default value, and that default value is
\* the variant Ok.
C23_DefaultIsOk == op = "default" => res = Some("Ok")

\* The value of a decimal digit character.
DigitValue(c) == CHOOSE d \in 0..9 : LowerDigits[d + 1] = c

\* s is a non-empty string of decimal digits
RECURSIVE IsDecimal(_)
IsDecimal(s) ==
  /\ Len(s) >= 1
  /\ \E d \in 0..9 : LowerDigits[d + 1] = SubSeq(s, Len(s), Len(s))
  /\ Len(s) > 1 => IsDecimal(SubSeq(s, 1, Len(s) - 1))

\* The number a string of decimal digits denotes.
RECURSIVE ParseDecimal(_)
ParseDecimal(s) ==
  IF Len(s) = 1 THEN DigitValue(s)
  ELSE 10 * ParseDecimal(SubSeq(s, 1, Len(s) - 1))
         + DigitValue(SubSeq(s, Len(s), Len(s)))

\* s is the decimal form of n: an optional '-' and digits without a
\* leading zero that denote n
IsDecimalOf(s, n) ==
  LET digits == IF n < 0 THEN SubSeq(s, 2, Len(s)) ELSE s
  IN  /\ n < 0 => SubSeq(s, 1, 1) = "-"
      /\ IsDecimal(digits)
      /\ Len(digits) > 1 => SubSeq(digits, 1, 1) # "0"
      /\ ParseDecimal(digits) = (IF n < 0 THEN -n ELSE n)

\* C24: the text of a conversion error depends on its payload only: a range
\* error reads "value is out of range", a status error that carries Some(N)
\* reads "invalid exit code 'N'" with N in decimal between grave accents
\* (written as apostrophes here), and a status error that
\* carries None reads "exit code is unknown".
C24_ErrorText ==
  /\ op = "ExitCodeRangeError_fmt" => res = StrVal("value is out of range")
  /\ op = "TryFromExitStatusError_fmt" =>
       LET c == arg.e.code
           before == "invalid exit code '"
       IN  IF c.tag = "Some"
           THEN /\ SubSeq(res.s, 1, Len(before)) = before
                /\ SubSeq(res.s, Len(res.s), Len(res.s)) = "'"
                /\ IsDecimalOf(SubSeq(res.s, Len(before) + 1, Len(res.s) - 1),
                               c.x)
                /\ c.x = 1 => res.s = "invalid exit code '1'"
           ELSE res = StrVal("exit code is unknown")

\* The text of a status error with the negative code -1.
C24_Witness ==
  /\ op = "TryFromExitStatusError_fmt"
  /\ arg.e.code = Some(-1)
  /\ res = StrVal("invalid exit code '-1'")

\* The rendering of the integer n by the u8 impl of the named trait.
format_u8(trait, n, f) ==
  CASE trait = "Octal"    -> u8_Octal_fmt(n, f)
    [] trait = "LowerHex" -> u8_LowerHex_fmt(n, f)
    [] trait = "UpperHex" -> u8_UpperHex_fmt(n, f)
    [] trait = "Binary"   -> u8_Binary_fmt(n, f)
    [] trait = "LowerExp" -> u8_LowerExp_fmt(n, f)
    [] trait = "UpperExp" -> u8_UpperExp_fmt(n, f)

\* A format spec with the given flags and width.
FormatSpec(alternate, zero, width) ==
  [alternate |-> alternate, zero |-> zero, width |-> width]

\* Renderings the documentation and the tests state.
FmtExamples ==
  { [v |-> "Usage", trait |-> "Octal", f |-> PlainFormatter, s |-> "100"],
    [v |-> "Usage", trait |-> "LowerHex", f |-> PlainFormatter, s |-> "40"],
    [v |-> "Usage", trait |-> "UpperHex", f |-> PlainFormatter, s |-> "40"],
    [v |-> "Usage", trait |-> "Binary", f |-> PlainFormatter,
     s |-> "1000000"],
    [v |-> "Usage", trait |-> "LowerExp", f |-> PlainFormatter,
     s |-> "6.4e1"],
    [v |-> "Usage", trait |-> "UpperExp", f |-> PlainFormatter,
     s |-> "6.4E1"],
    [v |-> "Software", trait |-> "LowerExp", f |-> PlainFormatter,
     s |-> "7e1"],
    [v |-> "Software", trait |-> "LowerExp", f |-> FormatSpec(FALSE, TRUE, 5),
     s |-> "007e1"],
    [v |-> "Ok", trait |-> "UpperExp", f |-> FormatSpec(FALSE, TRUE, 5),
     s |-> "000E0"],
    [v |-> "Ok", trait |-> "Octal", f |-> FormatSpec(TRUE, TRUE, 5),
     s |-> "0o000"],
    [v |-> "Ok", trait |-> "LowerHex", f |-> FormatSpec(FALSE, TRUE, 2),
     s |-> "00"],
    [v |-> "IoErr", trait |-> "LowerHex", f |-> FormatSpec(TRUE, FALSE, 0),
     s |-> "0x4a"],
    [v |-> "IoErr", trait |-> "UpperHex", f |-> FormatSpec(TRUE, TRUE, 4),
     s |-> "0x4A"],
    [v |-> "Config", trait |-> "Octal", f |-> FormatSpec(FALSE, TRUE, 3),
     s |-> "116"],
    [v |-> "Ok", trait |-> "Binary", f |-> FormatSpec(FALSE, TRUE, 7),
     s |-> "0000000"],
    [v |-> "Config", trait |-> "Binary", f |-> FormatSpec(TRUE, TRUE, 9),
     s |-> "0b1001110"] }

\* C25: the rendering of a code under Octal, LowerHex, UpperHex, Binary,
\* LowerExp or UpperExp, with or without '#' and zero padding, equals the
\* rendering of the code's integer value under the same trait and format
\* spec: Usage is "100" in octal, "40" in hexadecimal, "1000000" in binary
\* and "6.4e1" in exponent form, and Software (70) is "7e1".
C25_AlternateBases ==
  (IsFormat /\ arg.trait # "Display") =>
    /\ res.s = format_u8(arg.trait, SysexitsTable[arg.v], arg.f)
    /\ \A e \in FmtExamples :
         (arg.v = e.v /\ arg.trait = e.trait /\ arg.f = e.f) => res.s = e.s

C25_Witness ==
  /\ IsFormat
  /\ arg.trait = "UpperHex"
  /\ arg.v = "IoErr"
  /\ arg.f = FormatSpec(TRUE, TRUE, 4)
  /\ res = StrVal("0x4A")

\* The kinds the fallible conversion has a code for.
TryKindTable ==
  [NotFound |-> "NoInput", PermissionDenied |-> "NoPerm",
   ConnectionRefused |-> "Protocol", ConnectionReset |-> "Protocol",
   ConnectionAborted |-> "Protocol", NotConnected |-> "Protocol",
   AddrInUse |-> "Unavailable", AddrNotAvailable |-> "Unavailable",
   AlreadyExists |-> "CantCreat", InvalidInput |-> "DataErr",
   InvalidData |-> "DataErr", UnexpectedEof |-> "DataErr"]

\* Kinds named as having no code.
TryKindFailing ==
  {"BrokenPipe", "WouldBlock", "TimedOut", "WriteZero", "Interrupted",
   "Unsupported", "OutOfMemory", "Other"}

\* C26: ExitCode::try_from(kind) succeeds with the code of the table for the
\* twelve kinds listed there, and for every other kind (BrokenPipe,
\* WouldBlock, TimedOut, WriteZero, Interrupted, Unsupported, OutOfMemory,
\* Other and every kind not listed) returns Err of an error whose kind() is
\* exactly the kind passed in.
C26_TryFromKind ==
  op = "try_from_io_error_kind_to_exit_code" =>
    /\ arg.kind \in DOMAIN TryKindTable =>
         res = OkVal(TryKindTable[arg.kind])
    /\ arg.kind \notin DOMAIN TryKindTable =>
         /\ res.tag = "Err"
         /\ res.e.type = "TryFromErrorKindError"
         /\ TryFromErrorKindError_kind(res.e) = arg.kind
    /\ arg.kind \in TryKindFailing => res.tag = "Err"

C26_Witness ==
  /\ op = "try_from_io_error_kind_to_exit_code"
  /\ arg.kind = "BrokenPipe"
  /\ res = ErrVal([type |-> "TryFromErrorKindError", kind |-> "BrokenPipe"])

\* C28: when try_from returns Ok(v) for an integer n of some width,
\* converting v back to that width yields n; so no other integer of that
\* width converts to the same variant.
C28_ReverseRoundTrip ==
  (op = "from_exit_code_to_integer" /\ prev # NoCall) =>
    /\ prev.op = "try_from_integer_to_exit_code"
    /\ prev.res = OkVal(arg.v)
    /\ arg.T = prev.arg.T
    /\ res = prev.arg
    /\ \A m \in Inputs(arg.T) :
         try_from_integer_to_exit_code(arg.T, m) = prev.res => m = prev.arg.n

C28_Witness ==
  /\ op = "from_exit_code_to_integer"
  /\ prev # NoCall
  /\ prev.arg = IntVal("i64", 78)
  /\ prev.res = OkVal("Config")
  /\ res = IntVal("i64", 78)

\* The codes the classifier is said to return.
ClassifierCodes ==
  {"NoInput", "NoPerm", "OsErr", "TempFail", "NoHost", "Unavailable",
   "CantCreat", "Protocol", "DataErr", "Software", "IoErr"}

\* C29: the total classifier of I/O error kinds never returns a success
\* code: its result is one of NoInput, NoPerm, OsErr, TempFail, NoHost,
\* Unavailable, CantCreat, Protocol, DataErr, Software and IoErr, never Ok,
\* Usage, NoUser, OsFile or Config, and is_failure() holds of it.
C29_ClassifierFails ==
  /\ op \in {"from_io_error_kind_to_exit_code",
             "from_io_error_to_exit_code"} =>
       /\ res.tag = "code"
       /\ res.v \in ClassifierCodes
       /\ res.v \notin {"Ok", "Usage", "NoUser", "OsFile", "Config"}
       /\ SysexitsTable[res.v] # 0
  /\ (op = "is_failure" /\ prev # NoCall) =>
       /\ prev.op = "from_io_error_kind_to_exit_code"
       /\ arg = prev.res
       /\ res = BoolVal(TRUE)

C29_Witness ==
  /\ op = "is_failure"
  /\ prev # NoCall
  /\ prev.arg.kind = "Other"
  /\ arg = CodeVal("IoErr")
  /\ res = BoolVal(TRUE)

\* C30: the Result collapse passes Err(ExitCode::Ok) through as Ok: the
\* collapsed code satisfies is_success() exactly when the Result is Ok(_)
\* or Err(ExitCode::Ok).
C30_ErrOkPassesThrough ==
  /\ (op = "from_result_type_to_exit_code" /\ arg.result.tag = "Err") =>
       (arg.result.e = "Ok" => res = CodeVal("Ok"))
  /\ (op = "is_success" /\ prev # NoCall) =>
       /\ prev.op = "from_result_type_to_exit_code"
       /\ arg = prev.res
       /\ res.b <=> \/ prev.arg.result.tag = "Ok"
                    \/ /\ prev.arg.result.tag = "Err"
                       /\ prev.arg.result.e = "Ok"

C30_Witness ==
  /\ op = "is_success"
  /\ prev # NoCall
  /\ prev.arg.result = ErrVal("Ok")
  /\ arg = CodeVal("Ok")
  /\ res = BoolVal(TRUE)

====
